---------------------------- MODULE Spec2Model ----------------------------
(***************************************************************************)
(* A model of the CC-CEDICT parser (src/main.py): the line parser          *)
(* parse_cc_cedict_line, the batch driver parse_cc_cedict_file, the writer *)
(* save_to_json and the command-line entry point main.                     *)
(*                                                                         *)
(* A Python str is modelled as a sequence of one-character strings.  The   *)
(* string operations the parser uses (strip, startswith, endswith, split,  *)
(* re.sub, join, len) are operators that work character by character.      *)
(***************************************************************************)
EXTENDS Naturals, Integers, Sequences, FiniteSets, TLC

VARIABLES
    pc,            \* position of the program
    failing,       \* characters on which the transliteration library raises
    source_lines,  \* the lines `for line in file` yields, in order
    message,       \* the error message printed before a sys.exit(1)  
    line_num,      \* enumerate(file, 1): number of the line last read (0: none)
    line,          \* the line last handed to parse_cc_cedict_line
    parsed_entry,  \* what parse_cc_cedict_line did with it
    entries,       \* the list built by parse_cc_cedict_file
    warnings,      \* line numbers of the "Warning: Error parsing line" prints
    output,        \* state of the output file
    exit_status,   \* process exit status (-1 while running)
    gen            \* how the input line was put together (ParseSpec)

vars == <<pc, failing, source_lines, message, line_num, line, parsed_entry,
          entries, warnings, output, exit_status, gen>>

---------------------------------------------------------------------------
(* Characters *)

SP  == " "
TAB == "\t"
NL  == "\n"

\* str.strip() with no argument removes whitespace
Whitespace == {SP, TAB, NL}

\* the characters of a headword; the library may raise on any of them
Han == {"h", "g"}

---------------------------------------------------------------------------
(* Python string operations *)

RECURSIVE lstrip(_)
lstrip(s) ==
    IF s # <<>> /\ Head(s) \in Whitespace THEN lstrip(Tail(s)) ELSE s

RECURSIVE rstrip(_)
rstrip(s) ==
    IF s # <<>> /\ s[Len(s)] \in Whitespace
    THEN rstrip(SubSeq(s, 1, Len(s) - 1))
    ELSE s

strip(s) == rstrip(lstrip(s))

startswith(s, c) == Len(s) >= 1 /\ s[1] = c

endswith(s, c) == Len(s) >= 1 /\ s[Len(s)] = c

\* index of the first c in s, 0 when there is none
find(s, c) ==
    IF \E i \in 1..Len(s) : s[i] = c
    THEN CHOOSE i \in 1..Len(s) : s[i] = c /\ \A j \in 1..(i - 1) : s[j] # c
    ELSE 0

\* s.split(sep, maxsplit) for a one-character sep; maxsplit = -1: no limit
RECURSIVE split(_, _, _)
split(s, sep, maxsplit) ==
    LET i == find(s, sep) IN
    IF maxsplit = 0 \/ i = 0
    THEN <<s>>
    ELSE <<SubSeq(s, 1, i - 1)>> \o split(SubSeq(s, i + 1, Len(s)), sep, maxsplit - 1)

\* sep.join(items)
RECURSIVE join(_, _)
join(sep, items) ==
    IF items = <<>> THEN <<>>
    ELSE IF Len(items) = 1 THEN items[1]
    ELSE items[1] \o <<sep>> \o join(sep, Tail(items))

\* re.sub(r'\[.*?\]', '', s): scanning from the left, a '[' followed later by
\* a ']' with no newline between them is removed up to the nearest such ']'
RECURSIVE re_sub_brackets(_)
re_sub_brackets(s) ==
    IF s = <<>> THEN <<>>
    ELSE LET close == find(Tail(s), "]")
             nl    == find(Tail(s), NL)
         IN  IF Head(s) = "[" /\ close # 0 /\ (nl = 0 \/ close < nl)
             THEN re_sub_brackets(SubSeq(s, close + 2, Len(s)))
             ELSE <<Head(s)>> \o re_sub_brackets(Tail(s))

---------------------------------------------------------------------------
(* The transliteration library (pypinyin.pinyin)                           *)

\* pinyin(characters, style=...): a list with one item per character, each
\* item a list holding one token; raises on the characters in bad.
\* A token is the two-character string <<style, character>>.
pinyin(characters, style, bad) ==
    IF \E i \in 1..Len(characters) : characters[i] \in bad
    THEN [raised |-> TRUE, value |-> <<>>]
    ELSE [raised |-> FALSE,
          value |-> [i \in 1..Len(characters) |-> << <<style, characters[i]>> >>]]

\* " ".join([item[0] for item in lst if item[0]])
join_items(lst) ==
    join(SP, SelectSeq([i \in 1..Len(lst) |-> lst[i][1]], LAMBDA t : t # <<>>))

get_zhuyin_from_characters(characters, bad) ==
    IF characters = <<>> THEN [raised |-> FALSE, value |-> <<>>]
    ELSE LET zhuyin_list == pinyin(characters, "BOPOMOFO", bad) IN
         IF zhuyin_list.raised THEN [raised |-> TRUE, value |-> <<>>]
         ELSE [raised |-> FALSE, value |-> join_items(zhuyin_list.value)]

get_pinyin_from_characters(characters, bad) ==
    IF characters = <<>> THEN [raised |-> FALSE, value |-> <<>>]
    ELSE LET pinyin_list == pinyin(characters, "TONE", bad) IN
         IF pinyin_list.raised THEN [raised |-> TRUE, value |-> <<>>]
         ELSE [raised |-> FALSE, value |-> join_items(pinyin_list.value)]

---------------------------------------------------------------------------
(* parse_cc_cedict_line *)

\* the three outcomes of a call: it returns None, returns a dict, or raises
ReturnNone == [kind |-> "None", value |-> <<>>]
Raise      == [kind |-> "raise", value |-> <<>>]
Return(d)  == [kind |-> "entry", value |-> <<d>>]

\* a variant that forgets the comment marker
is_empty_only(l) == strip(l) = <<>>

\* if not line.strip() or line.startswith('#')
is_empty_or_comment(l) == strip(l) = <<>> \/ startswith(l, "#")

\* s.split(None, maxsplit) on single whitespace characters
RECURSIVE split_any(_, _)
split_any(s, maxsplit) ==
    LET hits == {i \in 1..Len(s) : s[i] \in Whitespace} IN
    IF maxsplit = 0 \/ hits = {}
    THEN <<s>>
    ELSE LET i == CHOOSE k \in hits : \A j \in hits : k <= j IN
         <<SubSeq(s, 1, i - 1)>> \o split_any(SubSeq(s, i + 1, Len(s)), maxsplit - 1)

\* a variant that separates the headwords at tabs as well as at spaces
split_parts_any_whitespace(l) == split_any(l, 2)

\* line.split(' ', 2)
split_parts(l) == split(l, SP, 2)

\* a variant that deletes the brackets and keeps the text between them
meaning_part_keeping_text(rest) ==
    strip(SelectSeq(rest, LAMBDA c : c \notin {"[", "]"}))

\* re.sub(r'\[.*?\]', '', rest).strip()
meaning_part_of(rest) == strip(re_sub_brackets(rest))

\* a variant that keeps the pieces as they are, untrimmed and empty ones too
extract_meanings_untrimmed(meaning_part) ==
    IF startswith(meaning_part, "/") /\ endswith(meaning_part, "/")
    THEN split(SubSeq(meaning_part, 2, Len(meaning_part) - 1), "/", -1)
    ELSE <<>>

\* a variant that asks only for the opening slash
extract_meanings_open_only(meaning_part) ==
    IF startswith(meaning_part, "/")
    THEN LET pieces == split(SubSeq(meaning_part, 2, Len(meaning_part)), "/", -1)
         IN  SelectSeq([i \in 1..Len(pieces) |-> strip(pieces[i])],
                       LAMBDA m : m # <<>>)
    ELSE <<>>

\* the meanings list built from meaning_part
extract_meanings(meaning_part) ==
    IF startswith(meaning_part, "/") /\ endswith(meaning_part, "/")
    THEN LET meaning_text == SubSeq(meaning_part, 2, Len(meaning_part) - 1)
             pieces == split(meaning_text, "/", -1)
         IN  SelectSeq([i \in 1..Len(pieces) |-> strip(pieces[i])],
                       LAMBDA m : m # <<>>)
    ELSE <<>>

\* a variant with the comparison off by one
is_idiom_longer_than_4(traditional, simplified) ==
    Len(traditional) > 4 \/ Len(simplified) > 4

\* len(traditional) >= 4 or len(simplified) >= 4
is_idiom_of(traditional, simplified) ==
    Len(traditional) >= 4 \/ Len(simplified) >= 4

parse_cc_cedict_line(l, bad) ==
    IF is_empty_or_comment(l) THEN ReturnNone
    ELSE LET parts == split_parts(strip(l)) IN
         IF Len(parts) < 3 THEN ReturnNone
         ELSE LET traditional == parts[1]
                  simplified  == parts[2]
                  rest        == parts[3]
                  py          == get_pinyin_from_characters(traditional, bad)
                  meanings    == extract_meanings(meaning_part_of(rest))
                  zy          == get_zhuyin_from_characters(traditional, bad)
              IN  IF py.raised \/ zy.raised THEN Raise
                  ELSE Return([traditional |-> traditional,
                               simplified  |-> simplified,
                               pinyin      |-> py.value,
                               zhuyin      |-> zy.value,
                               meaning     |-> meanings,
                               is_idiom    |-> is_idiom_of(traditional, simplified)])

---------------------------------------------------------------------------
(* parse_cc_cedict_file: the body of one iteration of the loop *)

\* enumerate(file, 1): the number given to the line after line number n
next_line_num(n) == n + 1

\* a variant without the test: whatever was returned is appended, None too
append_returned(es, parsed) ==
    IF parsed.kind = "raise" THEN es
    ELSE IF parsed.kind = "entry" THEN Append(es, parsed.value[1])
    ELSE Append(es, [traditional |-> <<>>, simplified |-> <<>>, pinyin |-> <<>>,
                     zhuyin |-> <<>>, meaning |-> <<>>, is_idiom |-> FALSE])

\* a variant that puts the new entry in front
insert_if_parsed(es, parsed) ==
    IF parsed.kind = "entry" THEN <<parsed.value[1]>> \o es ELSE es

\* if parsed_entry: entries.append(parsed_entry)
append_if_parsed(es, parsed) ==
    IF parsed.kind = "entry" THEN Append(es, parsed.value[1]) ELSE es

\* a variant that counts the lines from 0
warn_if_raised_from_0(ws, parsed, n) ==
    IF parsed.kind = "raise" THEN Append(ws, n - 1) ELSE ws

\* except Exception as e: print(f"Warning: Error parsing line {line_num}: {e}")
warn_if_raised(ws, parsed, n) ==
    IF parsed.kind = "raise" THEN Append(ws, n) ELSE ws

\* a variant that never finds the list empty
never_no_entries(es) == FALSE

\* if not entries: (main, after the file was parsed)
no_entries(es) == es = <<>>

---------------------------------------------------------------------------
(* Inputs *)

MaxLines == 3
MaxRaw   == 4
MaxHead  == 4
MaxGloss == 2

\* lines of an input file, each with its line terminator
LineEntry    == <<"h", SP, "h", SP, "[", "p", "]", SP, "/", "m", "/", NL>>
LineIdiom    == <<"h", "h", "h", "h", SP, "h", SP, "/", "m", "/", " ", "m", "/", NL>>
LineFaulty   == <<"g", SP, "g", SP, "[", "p", "]", SP, "/", "m", "/", NL>>
LineEmpty    == <<NL>>
LineComment  == <<"#", SP, "c", SP, "c", NL>>
LineIndented == <<TAB, "#", SP, "c", SP, "c", SP, "c", NL>>
LineTwo      == <<"h", SP, "h", NL>>
LineNoGloss  == <<"h", SP, "h", SP, "/", "m", NL>>

FilePool == {LineEntry, LineIdiom, LineFaulty, LineEmpty, LineComment,
             LineIndented, LineTwo, LineNoGloss}

\* all sequences over S of length at most n
RECURSIVE SeqsUpTo(_, _)
SeqsUpTo(S, n) ==
    IF n = 0 THEN {<<>>}
    ELSE LET shorter == SeqsUpTo(S, n - 1) IN
         shorter \cup {Append(q, x) : q \in {r \in shorter : Len(r) = n - 1}, x \in S}

Files == SeqsUpTo(FilePool, MaxLines)

NoGen == [family |-> "file"]

NotCalled == [kind |-> "pending", value |-> <<>>]

---------------------------------------------------------------------------
(* main *)

Init ==
    /\ pc = "main"
    /\ failing \in SUBSET Han
    /\ source_lines \in Files
    /\ message = "none"
    /\ line_num = 0
    /\ line = <<>>
    /\ parsed_entry = NotCalled
    /\ entries = <<>>
    /\ warnings = <<>>
    /\ output = "untouched"
    /\ exit_status = -1
    /\ gen = NoGen

\* sys.exit(1), or an exception nothing catches
Exit1(why) ==
    /\ pc' = "exit"
    /\ exit_status' = 1
    /\ message' = why

\* if not Path(args.input_dict_path).exists(): ... sys.exit(1)
CheckInput ==
    /\ pc = "main"
    /\ \E exists \in BOOLEAN :
         IF exists
         THEN pc' = "mkdir" /\ UNCHANGED <<exit_status, message>>
         ELSE Exit1("does not exist")
    /\ UNCHANGED <<failing, source_lines, line_num, line, parsed_entry, entries,
                   warnings, output, gen>>

\* output_dir.mkdir(parents=True, exist_ok=True) when the directory is absent;
\* an OSError there is caught nowhere and ends the interpreter with status 1
MakeOutputDir ==
    /\ pc = "mkdir"
    /\ \E made \in BOOLEAN :
         IF made
         THEN pc' = "open" /\ UNCHANGED <<exit_status, message>>
         ELSE Exit1("mkdir failed")
    /\ UNCHANGED <<failing, source_lines, line_num, line, parsed_entry, entries,
                   warnings, output, gen>>

\* with open(input_path, 'r', encoding='utf-8') as file
OpenInput ==
    /\ pc = "open"
    /\ \E r \in {"open", "not found", "error reading"} :
         IF r = "open"
         THEN pc' = "loop" /\ UNCHANGED <<exit_status, message>>
         ELSE Exit1(r)
    /\ UNCHANGED <<failing, source_lines, line_num, line, parsed_entry, entries,
                   warnings, output, gen>>

\* one iteration of: for line_num, line in enumerate(file, 1)
ProcessLine ==
    /\ pc = "loop"
    /\ line_num < Len(source_lines)
    /\ LET n      == next_line_num(line_num)
           l      == source_lines[line_num + 1]
           parsed == parse_cc_cedict_line(l, failing)
       IN  /\ line_num' = n
           /\ line' = l
           /\ parsed_entry' = parsed
           /\ entries' = append_if_parsed(entries, parsed)
           /\ warnings' = warn_if_raised(warnings, parsed, n)
    /\ UNCHANGED <<pc, failing, source_lines, message, output, exit_status, gen>>

\* reading the next line raises (a decoding error, an I/O error):
\* except Exception as e: print(f"Error reading file: {e}"); sys.exit(1)
ReadError ==
    /\ pc = "loop"
    /\ line_num < Len(source_lines)
    /\ Exit1("error reading")
    /\ UNCHANGED <<failing, source_lines, line_num, line, parsed_entry, entries,
                   warnings, output, gen>>

\* the file is exhausted: return entries
EndOfFile ==
    /\ pc = "loop"
    /\ line_num = Len(source_lines)
    /\ pc' = "check"
    /\ UNCHANGED <<failing, source_lines, message, line_num, line, parsed_entry,
                   entries, warnings, output, exit_status, gen>>

\* if not entries: print("Warning: No valid entries found ..."); sys.exit(1)
CheckEntries ==
    /\ pc = "check"
    /\ IF no_entries(entries)
       THEN Exit1("no entries")
       ELSE pc' = "save" /\ UNCHANGED <<exit_status, message>>
    /\ UNCHANGED <<failing, source_lines, line_num, line, parsed_entry, entries,
                   warnings, output, gen>>

\* save_to_json(entries, args.output_path)
SaveToJson ==
    /\ pc = "save"
    /\ \E r \in {"written", "not opened", "partly written"} :
         /\ output' = r
         /\ pc' = "exit"
         /\ exit_status' = IF r = "written" THEN 0 ELSE 1
    /\ UNCHANGED <<failing, source_lines, message, line_num, line, parsed_entry,
                   entries, warnings, gen>>

Next ==
    \/ CheckInput
    \/ MakeOutputDir
    \/ OpenInput
    \/ ProcessLine
    \/ ReadError
    \/ EndOfFile
    \/ CheckEntries
    \/ SaveToJson

Spec == Init /\ [][Next]_vars

---------------------------------------------------------------------------
(* The line parser on its own: one call of parse_cc_cedict_line *)

\* the characters of the unstructured input lines
RawAlphabet == {"h", SP, TAB, "#", "[", "]", "/"}

\* n times the character c
Repeat(c, n) == [i \in 1..n |-> c]

\* a piece of text between two slashes, with what it is a gloss for:
\* clean is the expected gloss, empty when the piece is to be dropped
\* (a bracketed span inside a piece is removed with the others)
GlossPieces ==
    { [raw |-> <<"m">>,                   clean |-> << <<"m">> >>],
      [raw |-> <<SP, "m", TAB>>,          clean |-> << <<"m">> >>],
      [raw |-> <<"a", SP, "(", "b", ")">>, clean |-> << <<"a", SP, "(", "b", ")">> >>],
      [raw |-> <<"m", "[", "p", "]">>,    clean |-> << <<"m">> >>],
      [raw |-> <<>>,                      clean |-> <<>>],
      [raw |-> <<SP>>,                    clean |-> <<>>] }

\* the texts inside a bracketed span: none holds a ']'
BracketTexts == { <<>>, <<"p">>, <<"p", SP, "q">>, <<"/">>, <<"[", "h">> }

\* <<>>: no bracketed span; <<t>>: the span [t]
Bracket(br) == IF br = <<>> THEN <<>> ELSE <<"[">> \o br[1] \o <<"]">>

\* the gloss section: the pieces joined by slashes, inside slashes or not
GlossText(wrap, pieces) ==
    LET inner == join("/", [i \in 1..Len(pieces) |-> pieces[i].raw]) IN
    CASE wrap = "both"    -> <<"/">> \o inner \o <<"/">>
      [] wrap = "noclose" -> <<"/">> \o inner
      [] wrap = "noopen"  -> inner \o <<"/">>
      [] OTHER            -> inner

\* the text of an input line
Assemble(g) ==
    IF g.family = "raw" THEN g.raw
    ELSE g.lead \o g.trad \o g.sep1 \o g.simp \o g.sep2 \o Bracket(g.br)
         \o g.mid \o GlossText(g.wrap, g.pieces) \o g.trail

StructuredGen(lead, trad, sep1, simp, sep2, br, mid, wrap, pieces, trail) ==
    [family |-> "structured", lead |-> lead, trad |-> trad, sep1 |-> sep1,
     simp |-> simp, sep2 |-> sep2, br |-> br, mid |-> mid, wrap |-> wrap,
     pieces |-> pieces, trail |-> trail]

OnePiece == << [raw |-> <<"m">>, clean |-> << <<"m">> >>] >>

\* unstructured lines: every string over RawAlphabet of at most MaxRaw characters
RawGens == { [family |-> "raw", raw |-> r] : r \in SeqsUpTo(RawAlphabet, MaxRaw) }

\* lines that vary the headwords and the separators around them
HeadGens ==
    { StructuredGen(lead, trad, sep1, simp, sep2, << <<"p">> >>, <<SP>>, "both",
                    OnePiece, <<NL>>) :
        lead \in {<<>>, <<SP>>, <<TAB>>},
        trad \in {Repeat("h", n) : n \in 1..MaxHead} \cup {<<"g">>, <<"h", "g">>, <<"#">>},
        sep1 \in {<<SP>>, <<SP, SP>>, <<TAB>>},
        simp \in {Repeat("h", n) : n \in 1..MaxHead},
        sep2 \in {<<SP>>, <<TAB>>} }

\* lines that vary the bracketed span and the gloss section
GlossGens ==
    { StructuredGen(<<>>, <<"h">>, <<SP>>, <<"h">>, <<SP>>, br, mid, wrap, pieces, trail) :
        br \in {<<>>} \cup { <<t>> : t \in BracketTexts },
        mid \in {<<>>, <<SP>>},
        wrap \in {"both", "noclose", "noopen", "none"},
        pieces \in SeqsUpTo(GlossPieces, MaxGloss),
        trail \in {<<>>, <<SP, NL>>} }

Gens == RawGens \cup HeadGens \cup GlossGens

ParseInit ==
    /\ pc = "call"
    /\ failing \in SUBSET Han
    /\ gen \in Gens
    /\ line = Assemble(gen)
    /\ parsed_entry = NotCalled
    /\ source_lines = <<>>
    /\ message = "none"
    /\ line_num = 0
    /\ entries = <<>>
    /\ warnings = <<>>
    /\ output = "untouched"
    /\ exit_status = -1

\* parsed_entry = parse_cc_cedict_line(line)
ParseCall ==
    /\ pc = "call"
    /\ parsed_entry' = parse_cc_cedict_line(line, failing)
    /\ pc' = "return"
    /\ UNCHANGED <<failing, source_lines, message, line_num, line, entries,
                   warnings, output, exit_status, gen>>

ParseNext == ParseCall

ParseSpec == ParseInit /\ [][ParseNext]_vars

---------------------------------------------------------------------------
(* Properties of parse_cc_cedict_line, checked under ParseSpec *)

Returned == pc = "return"
IsEntry  == parsed_entry.kind = "entry"
Entry    == parsed_entry.value[1]

AllWhitespace(l) == \A i \in 1..Len(l) : l[i] \in Whitespace

\* l from its first to its last character that is not whitespace
Trimmed(l) ==
    IF AllWhitespace(l) THEN <<>>
    ELSE LET solid == {i \in 1..Len(l) : l[i] \notin Whitespace}
             first == CHOOSE i \in solid : \A j \in solid : i <= j
             last  == CHOOSE i \in solid : \A j \in solid : j <= i
         IN  SubSeq(l, first, last)

Occurs(c, s) == \E i \in 1..Len(s) : s[i] = c

CountOf(c, s) == Cardinality({i \in 1..Len(s) : s[i] = c})

\* the position of the n-th space of s (s has at least n spaces)
NthSpace(s, n) ==
    CHOOSE i \in 1..Len(s) : s[i] = SP /\ CountOf(SP, SubSeq(s, 1, i)) = n

\* the tokens of l delimited by runs of whitespace, the third one being all
\* that follows the second token
RECURSIVE WhitespaceTokens(_, _)
WhitespaceTokens(s, more) ==
    LET t == Trimmed(s) IN
    IF t = <<>> THEN <<>>
    ELSE IF more = 0 \/ \A i \in 1..Len(t) : t[i] \notin Whitespace THEN <<t>>
    ELSE LET gap == CHOOSE i \in 1..Len(t) :
                        t[i] \in Whitespace /\ \A j \in 1..(i - 1) : t[j] \notin Whitespace
         IN  <<SubSeq(t, 1, gap - 1)>>
             \o WhitespaceTokens(SubSeq(t, gap + 1, Len(t)), more - 1)

\* C2 as stated: a line that, once trimmed, is empty or begins with '#'
\* yields SKIP, whatever precedes the '#' and whatever follows it.
C2_SkipAfterTrimming ==
    Returned /\ (AllWhitespace(line) \/ startswith(Trimmed(line), "#"))
        => parsed_entry.kind = "None"

\* C2 amended: a line that is empty once trimmed, or whose first character
\* (before any trimming) is '#', yields SKIP, also when the comment text holds
\* further spaces; a line where whitespace precedes the '#' is not taken for a
\* comment and yields SKIP exactly when its trimmed text has fewer than two spaces.
C2_SkipBlankOrLeadingHash ==
    Returned =>
        /\ (AllWhitespace(line) \/ (line # <<>> /\ line[1] = "#"))
               => parsed_entry.kind = "None"
        /\ (line # <<>> /\ line[1] \in Whitespace /\ startswith(Trimmed(line), "#"))
               => (parsed_entry.kind = "None" <=> CountOf(SP, Trimmed(line)) < 2)

C2_Witness ==
    /\ Returned
    /\ line # <<>> /\ line[1] = "#"
    /\ CountOf(SP, line) >= 2
    /\ parsed_entry.kind = "None"

\* C3 as stated: an entry is returned only when the trimmed, non-comment line
\* splits at runs of whitespace into two headword tokens and a remainder, SKIP
\* when fewer than three parts result; in an entry both headwords are non-empty
\* and are the first and second whitespace-delimited tokens.
C3_WhitespaceTokens ==
    Returned =>
        LET tokens == WhitespaceTokens(line, 2) IN
        /\ IsEntry =>
               /\ Len(tokens) = 3
               /\ Entry.traditional # <<>> /\ Entry.simplified # <<>>
               /\ Entry.traditional = tokens[1]
               /\ Entry.simplified = tokens[2]
        /\ Len(tokens) < 3 => parsed_entry.kind = "None"

\* C3 amended: only the single space separates.  An entry is returned only
\* when the trimmed line has at least two spaces, and SKIP when it has fewer
\* (fewer than three parts); in an entry traditional is non-empty, neither
\* headword holds a space, and they are the text before the first space and the
\* text between the first and the second space of the trimmed line (so
\* simplified is empty when these two spaces are adjacent, and a tab stays
\* inside a headword).
C3_SpaceSeparatedHeadwords ==
    Returned =>
        LET t == Trimmed(line) IN
        /\ CountOf(SP, t) < 2 => parsed_entry.kind = "None"
        /\ IsEntry =>
               /\ CountOf(SP, t) >= 2
               /\ Entry.traditional # <<>>
               /\ ~Occurs(SP, Entry.traditional)
               /\ ~Occurs(SP, Entry.simplified)
               /\ Entry.traditional = SubSeq(t, 1, NthSpace(t, 1) - 1)
               /\ Entry.simplified = SubSeq(t, NthSpace(t, 1) + 1, NthSpace(t, 2) - 1)

C3_Witness ==
    /\ Returned
    /\ IsEntry
    /\ Entry.simplified = <<>>
    /\ Occurs(TAB, line)

\* a structured line of the form T S [P] /m1/.../mk/: single spaces between
\* its four sections, headwords without whitespace, P without ']'
WellFormedLine(g) ==
    /\ g.family = "structured"
    /\ g.lead = <<>> /\ g.sep1 = <<SP>> /\ g.sep2 = <<SP>> /\ g.mid = <<SP>>
    /\ g.br # <<>>
    /\ g.wrap = "both"
    /\ ~startswith(g.trad, "#")

\* the glosses a sequence of pieces stands for: each trimmed, the empty ones dropped
RECURSIVE ExpectedMeaning(_)
ExpectedMeaning(pieces) ==
    IF pieces = <<>> THEN <<>>
    ELSE pieces[1].clean \o ExpectedMeaning(Tail(pieces))

OracleRaisesOn(text) == \E i \in 1..Len(text) : text[i] \in failing

\* the text before the first space of the trimmed line
FirstFieldOf(l) == SubSeq(Trimmed(l), 1, NthSpace(Trimmed(l), 1) - 1)

\* C4: for a well-formed line T S [P] /m1/.../mk/ the entry's meaning is the
\* sequence of the slash-delimited pieces, each trimmed, in source order, the
\* empty and whitespace-only ones dropped (and its headwords are T and S); no
\* element of any entry's meaning is empty, starts or ends with whitespace, or
\* holds a '/'.
C4_GlossExtraction ==
    Returned =>
        /\ (WellFormedLine(gen) /\ ~OracleRaisesOn(gen.trad)) =>
               /\ IsEntry
               /\ Entry.traditional = gen.trad
               /\ Entry.simplified = gen.simp
               /\ Entry.meaning = ExpectedMeaning(gen.pieces)
        /\ IsEntry =>
               \A k \in 1..Len(Entry.meaning) :
                   LET m == Entry.meaning[k] IN
                   /\ m # <<>>
                   /\ m[1] \notin Whitespace
                   /\ m[Len(m)] \notin Whitespace
                   /\ ~Occurs("/", m)

C4_Witness ==
    /\ Returned
    /\ WellFormedLine(gen)
    /\ IsEntry
    /\ Len(gen.pieces) = 2
    /\ gen.pieces[1].raw = <<SP>>
    /\ gen.pieces[2].raw = <<SP, "m", TAB>>
    /\ Entry.meaning = << <<"m">> >>

\* the line has two headword fields and a remainder: it is no comment and its
\* trimmed text has a second space
HasRemainder(l) == ~startswith(l, "#") /\ CountOf(SP, Trimmed(l)) >= 2

\* the text after the second space of the trimmed line
RemainderOf(l) ==
    LET t == Trimmed(l) IN SubSeq(t, NthSpace(t, 2) + 1, Len(t))

\* the remainder with its bracketed spans removed, trimmed
GlossSectionOf(l) == Trimmed(re_sub_brackets(RemainderOf(l)))

WellBracketed(g) == g # <<>> /\ g[1] = "/" /\ g[Len(g)] = "/"

\* C5: a line with two headword fields and a remainder whose gloss section does
\* not both start and end with '/' still yields an entry, with an empty
\* meaning; parse returns SKIP for no such line and raises only when the
\* transliteration of the headword does.
C5_TolerantDegradation ==
    (Returned /\ HasRemainder(line) /\ ~WellBracketed(GlossSectionOf(line))) =>
        /\ parsed_entry.kind # "None"
        /\ parsed_entry.kind = "raise" =>
               OracleRaisesOn(FirstFieldOf(line))
        /\ IsEntry => Entry.meaning = <<>>

C5_Witness ==
    /\ Returned
    /\ HasRemainder(line)
    /\ GlossSectionOf(line) = <<"/", "m">>
    /\ IsEntry
    /\ Entry.meaning = <<>>

\* the bracketed span of a structured line lies in the remainder: two spaces
\* come before it in the trimmed line
SpanInRemainder(g) ==
    /\ g.family = "structured"
    /\ g.br # <<>>
    /\ CountOf(SP, g.trad \o g.sep1 \o g.simp \o g.sep2) >= 2

\* the transcription of a headword: one token per character, joined by spaces
Transcription(style, text) ==
    IF text = <<>> THEN <<>>
    ELSE [i \in 1..(2 * Len(text) - 1) |->
             IF i % 2 = 1 THEN <<style, text[(i + 1) \div 2]>> ELSE <<SP>>]

RECURSIVE Flatten(_)
Flatten(ss) == IF ss = <<>> THEN <<>> ELSE ss[1] \o Flatten(Tail(ss))

\* C7: two lines that differ only in the text inside a bracketed span of the
\* remainder (a text without ']') parse to the same result; in every entry
\* pinyin and zhuyin are the transcription of traditional and of nothing else.
C7_BracketIndependence ==
    Returned =>
        /\ SpanInRemainder(gen) =>
               \A t \in BracketTexts :
                   parse_cc_cedict_line(Assemble([gen EXCEPT !.br = <<t>>]), failing)
                       = parsed_entry
        /\ IsEntry =>
               /\ Entry.pinyin = Flatten(Transcription("TONE", Entry.traditional))
               /\ Entry.zhuyin = Flatten(Transcription("BOPOMOFO", Entry.traditional))

C7_Witness ==
    /\ Returned
    /\ SpanInRemainder(gen)
    /\ gen.br = << <<"/">> >>
    /\ IsEntry
    /\ Entry.meaning # <<>>

\* C8: in every entry is_idiom is true exactly when traditional or simplified
\* has at least 4 characters, whatever the glosses and the bracketed text.
C8_IsIdiom ==
    (Returned /\ IsEntry) =>
        (Entry.is_idiom <=> (Len(Entry.traditional) >= 4 \/ Len(Entry.simplified) >= 4))

C8_Witness ==
    /\ Returned
    /\ IsEntry
    /\ Len(Entry.traditional) = 4
    /\ Len(Entry.simplified) = 1
    /\ Entry.is_idiom

---------------------------------------------------------------------------
(* Properties of parse_cc_cedict_file and main, checked under Spec *)

\* what the parser does with line i of the input
OutcomeOf(i) == parse_cc_cedict_line(source_lines[i], failing)

\* the numbers of the lines among the first n on which the parser raises
FaultyUpTo(n) ==
    SelectSeq([i \in 1..n |-> i], LAMBDA i : OutcomeOf(i).kind = "raise")

\* the loop over the lines has run to the end of the input
LoopFinished ==
    \/ pc \in {"check", "save"}
    \/ pc = "exit" /\ (message = "no entries" \/ output # "untouched")

\* the warnings and the entries after line_num lines
C1_Counts ==
    /\ warnings = FaultyUpTo(line_num)
    /\ Len(entries) = Cardinality({i \in 1..line_num : OutcomeOf(i).kind = "entry"})
    /\ LoopFinished =>
           /\ line_num = Len(source_lines)
           /\ Len(warnings) =
                  Cardinality({i \in 1..Len(source_lines) : OutcomeOf(i).kind = "raise"})

\* the step on a line that makes the parser raise
C1_FaultStep ==
    (pc = "loop" /\ line_num' = line_num + 1 /\ parsed_entry'.kind = "raise") =>
        /\ pc' = "loop"
        /\ exit_status' = exit_status
        /\ entries' = entries
        /\ warnings' = Append(warnings, line_num')

\* C1: with K of the N lines making the parser raise, the loop consumes all N
\* lines and ends normally; the warnings are the 1-based numbers of the faulting
\* lines, one each, and there is one entry for each line that neither faulted
\* nor was skipped; a fault leaves the entries as they are, adds its warning
\* and does not end the loop.
C1_FaultIsolation == [](C1_Counts) /\ [][C1_FaultStep]_vars

C1_Witness ==
    /\ pc = "check"
    /\ Len(source_lines) = 3
    /\ warnings = <<2>>
    /\ Len(entries) = 2

\* the step that processes the next line
LineStep == pc = "loop" /\ line_num' = line_num + 1

NothingEmitted == entries' = entries /\ warnings' = warnings

\* C6 as stated: an empty line, a comment line, a line with too few tokens and
\* a line with ill-formed gloss bracketing each append no entry and emit no
\* warning.
C6_FourSkipConditions ==
    [][(/\ LineStep
        /\ \/ AllWhitespace(line')
           \/ startswith(Trimmed(line'), "#")
           \/ Len(WhitespaceTokens(line', 2)) < 3
           \/ (HasRemainder(line') /\ ~WellBracketed(GlossSectionOf(line'))))
       => NothingEmitted]_vars

\* C6 amended: an empty line, a comment line (first character '#') and a line
\* with fewer than three space-separated parts each append no entry and emit no
\* warning; a line with ill-formed gloss bracketing is not skipped: it appends
\* an entry with an empty meaning and emits no warning, or, when the
\* transliteration of its headword raises, emits a warning and appends nothing.
C6_ThreeSkipConditions ==
    [][LineStep =>
        /\ (\/ AllWhitespace(line')
            \/ startswith(line', "#")
            \/ CountOf(SP, Trimmed(line')) < 2) => NothingEmitted
        /\ (HasRemainder(line') /\ ~WellBracketed(GlossSectionOf(line'))) =>
               \/ /\ Len(entries') = Len(entries) + 1
                  /\ SubSeq(entries', 1, Len(entries)) = entries
                  /\ entries'[Len(entries')].meaning = <<>>
                  /\ warnings' = warnings
               \/ /\ entries' = entries
                  /\ warnings' = Append(warnings, line_num')
                  /\ OracleRaisesOn(FirstFieldOf(line'))]_vars

C6_Witness ==
    /\ pc = "loop"
    /\ line_num = 3
    /\ source_lines = <<LineEntry, LineComment, LineNoGloss>>
    /\ Len(entries) = 2
    /\ entries[2].meaning = <<>>
    /\ warnings = <<>>

\* the entries of the first n lines, in the order of the lines
RECURSIVE EntriesOfPrefix(_)
EntriesOfPrefix(n) ==
    IF n = 0 THEN <<>> ELSE EntriesOfPrefix(n - 1) \o OutcomeOf(n).value

C9_Prefix == entries = EntriesOfPrefix(line_num)

C9_Step ==
    /\ line_num' = line_num \/ (line_num' = line_num + 1 /\ line' = source_lines[line_num'])
    /\ \/ entries' = entries
       \/ /\ Len(entries') = Len(entries) + 1
          /\ SubSeq(entries', 1, Len(entries)) = entries
          /\ line_num' = line_num + 1

\* C9: after i lines the entry list is, in line order, the parse results of
\* those of the first i lines that parsed to an entry; a step leaves the list
\* alone or appends to it, and the lines are taken one by one in increasing
\* 1-based number.
C9_OrderPreservation == [](C9_Prefix) /\ [][C9_Step]_vars

C9_Witness ==
    /\ line_num = 3
    /\ source_lines = <<LineIdiom, LineTwo, LineEntry>>
    /\ Len(entries) = 2
    /\ entries[1].is_idiom
    /\ ~entries[2].is_idiom

C10_Fatal ==
    /\ (pc = "exit" /\ message \in {"does not exist", "not found", "error reading",
                                    "no entries"})
           => (exit_status # 0 /\ output = "untouched")
    /\ (pc = "exit" /\ LoopFinished /\ entries = <<>>)
           => (exit_status # 0 /\ output = "untouched")
    /\ output # "untouched"
           => (line_num = Len(source_lines) /\ Len(entries) >= 1 /\ pc = "exit")
    /\ output \in {"not opened", "partly written"} => exit_status # 0
    /\ exit_status = 0 => output = "written"
    /\ pc # "exit" => exit_status = -1

\* how far the program has come: its position, plus the lines it has consumed
Progress ==
    line_num + (CASE pc = "main" -> 0 [] pc = "mkdir" -> 1 [] pc = "open" -> 2
                  [] pc = "loop" -> 3 [] pc = "check" -> 4 [] pc = "save" -> 5
                  [] OTHER -> 6)

\* before the exit the program is at a statement that can be executed
C10_Runs ==
    \/ pc \in {"main", "mkdir", "open", "check", "save", "exit"}
    \/ pc = "loop" /\ line_num <= Len(source_lines)

\* every step moves the program on, and it cannot move on for ever
C10_Advances == Progress' > Progress /\ Progress' <= 6 + Len(source_lines)

\* C10: a missing input, an input that cannot be read and a parse with no
\* entry each end the run with a non-zero status and the output untouched; the
\* output is written only after the whole input was parsed with at least one
\* entry; a failed write ends the run with a non-zero status; every run ends:
\* each step moves the program on towards its exit, in a bounded number of steps.
C10_FatalConditions == [](C10_Fatal /\ C10_Runs) /\ [][C10_Advances]_vars

C10_Witness ==
    /\ pc = "exit"
    /\ message = "no entries"
    /\ Len(source_lines) = 3
    /\ warnings # <<>>
    /\ output = "untouched"
    /\ exit_status = 1

===========================================================================
